---- MODULE Spec2Model ----
(***************************************************************************)
(* Model of crawler/base.py: the Crawler class.  One generator thread, a   *)
(* pool of network workers, a pool of parser workers and the thread that   *)
(* called run() (the Orchestrator) share two bounded queues, an unbounded  *)
(* queue of fatal errors, the work_allowed flag and two Event objects.     *)
(* Every step below is one shared-memory access (or blocking queue call)   *)
(* of the thread that takes it; thread-local computation is folded into    *)
(* the step that follows it.                                               *)
(***************************************************************************)
EXTENDS Integers, Sequences, FiniteSets, TLC

\* ------------------------------------------------------------------ bounds
NumNet == 1            \* config['num_network_threads']
NumParsers == 1        \* config['num_parsers']
TryLimit == 1          \* config['network_try_limit']

NetIds == 1..NumNet
ParserIds == 1..NumParsers
Requests == 1..5                           \* the Requests of a crawl
None == 0                                  \* the sentinel put by run()
NoError == <<"none", 0>>

\* A crawl is what run() is given: the Requests task_generator() yields
\* (tasks), the Requests the handler of each Request yields (yields), the
\* positions at which task_generator() may raise (gen_raises), the Requests
\* whose handler may raise (faulty), and the Requests for which
\* network_transport.process_request may raise NetworkError (flaky) or
\* another Exception (broken).
\* ChainCrawl: task_generator() yields Request 1, the handler of Request 1
\* yields Request 2 and the handler of Request 2 yields nothing; anything
\* may fail.
ChainCrawl ==
    [tasks |-> << 1 >>,
     yields |-> [r \in Requests |-> IF r = 1 THEN << 2 >> ELSE << >>],
     gen_raises |-> {1},
     faulty |-> Requests,
     flaky |-> Requests,
     broken |-> Requests]

\* WideCrawl: task_generator() yields Requests 1 to 4 and the handler of
\* Request 1 yields Request 5: more Requests than the queues and workers
\* hold.  Only Request 2 may fail transiently, only the fetch of Request 4
\* may raise another error, only the handler of Request 1 may raise and
\* task_generator() may raise only after its third Request.
WideCrawl ==
    [tasks |-> << 1, 2, 3, 4 >>,
     yields |-> [r \in Requests |-> IF r = 1 THEN << 5 >> ELSE << >>],
     gen_raises |-> {4},
     faulty |-> {1},
     flaky |-> {2},
     broken |-> {4}]

VARIABLES
    crawl,             \* task_generator and the handlers of the subclass
    request_queue,     \* self._request_queue, Queue(maxsize=num_network_threads)
    response_queue,    \* self._response_queue, Queue(maxsize=num_parsers)
    fatal_errors,      \* self._fatal_errors, unbounded Queue
    work_allowed,      \* self._work_allowed
    pause_event,       \* self._pause_event (its internal flag)
    resume_event,      \* self._resume_event (its internal flag)
    network_try_count, \* req.network_try_count of every Request
    gen_pc, gen_idx,   \* worker_task_generator: position, next task
    net_pc, net_req,   \* worker_network: position, local req
    net_active,        \* self._net_threads[..]['active']
    parser_pc,         \* worker_parser: position
    parser_req,        \* worker_parser: local req of the dequeued pair
    parser_idx,        \* worker_parser: next item of hdl_result
    parser_paused,     \* self._parser_threads[..]['paused']
    run_pc,            \* run(): position of the Orchestrator
    run_i,             \* run(): loop index of the current scan or for loop
    run_ex,            \* run(): the exception in flight
    \* ---- observers (not read by any action)
    first_taken,       \* first error run() took from fatal_errors
    pushed,            \* Requests ever put on request_queue
    fetches,           \* process_request calls per Request
    rejected,          \* process_rejected_request calls per Request
    dispatched,        \* handler calls per Request
    succeeded,         \* process_request calls that returned, per Request
    results_put,       \* pairs put on response_queue, per Request
    handler_raised,    \* errors raised by handler invocations
    errors_pushed,     \* number of puts on fatal_errors
    hook_calls,        \* shutdown_hook calls
    quiescent_view     \* what the queues and flags were when work was disallowed

Tasks == crawl.tasks
Yields(r) == crawl.yields[r]

vars == << crawl, request_queue, response_queue, fatal_errors, work_allowed,
           pause_event, resume_event, network_try_count, gen_pc, gen_idx,
           net_pc, net_req, net_active, parser_pc, parser_req, parser_idx,
           parser_paused, run_pc, run_i, run_ex, first_taken, pushed, fetches,
           rejected, dispatched, succeeded, results_put, handler_raised,
           errors_pushed, hook_calls, quiescent_view >>

shared == << request_queue, response_queue, fatal_errors, work_allowed,
             pause_event, resume_event, network_try_count >>
gen_vars == << gen_pc, gen_idx >>
net_vars == << net_pc, net_req, net_active >>
parser_vars == << parser_pc, parser_req, parser_idx, parser_paused >>
run_vars == << run_pc, run_i, run_ex, first_taken, hook_calls, quiescent_view >>
obs_vars == << pushed, fetches, rejected, dispatched, succeeded, results_put,
              handler_raised >>

\* ------------------------------------------------------------ queue helpers
Full(q, maxsize) == Len(q) >= maxsize          \* Queue.put blocks while full
qsize(q) == Len(q)                             \* Queue.qsize()

\* bool(self._pause_event): threading.Event defines neither __bool__ nor
\* __len__, so the object is truthy whatever its flag is.
PauseRequested == TRUE

\* a limit test that lets one more retry through
OverLimitOffByOne(count) == count > TryLimit + 1

\* req.network_try_count > self.config['network_try_limit']
OverLimit(count) == count > TryLimit

\* the state after __init__, at the start of run()
Constructed ==
    /\ request_queue = << >>
    /\ response_queue = << >>
    /\ fatal_errors = << >>
    /\ work_allowed = TRUE
    /\ pause_event = FALSE
    /\ resume_event = FALSE
    /\ network_try_count = [r \in Requests |-> 0]
    /\ gen_pc = "next"
    /\ gen_idx = 1
    /\ net_pc = [w \in NetIds |-> "get"]
    /\ net_req = [w \in NetIds |-> None]
    /\ net_active = [w \in NetIds |-> FALSE]
    /\ parser_pc = [p \in ParserIds |-> "get"]
    /\ parser_req = [p \in ParserIds |-> None]
    /\ parser_idx = [p \in ParserIds |-> 1]
    /\ parser_paused = [p \in ParserIds |-> FALSE]
    /\ run_pc = "poll"
    /\ run_i = 1
    /\ run_ex = NoError
    /\ first_taken = NoError
    /\ pushed = {}
    /\ fetches = [r \in Requests |-> 0]
    /\ rejected = [r \in Requests |-> 0]
    /\ dispatched = [r \in Requests |-> 0]
    /\ succeeded = [r \in Requests |-> 0]
    /\ results_put = [r \in Requests |-> 0]
    /\ handler_raised = {}
    /\ errors_pushed = 0
    /\ hook_calls = 0
    /\ quiescent_view = [set |-> FALSE, tasks |-> 0, results |-> 0, active |-> {}]

Init == crawl = ChainCrawl /\ Constructed

InitWide == crawl = WideCrawl /\ Constructed

\* ------------------------------------------------- worker_task_generator
\* for task in self.task_generator(): if not self._work_allowed: return
GenNext ==
    /\ gen_pc = "next"
    /\ gen_idx <= Len(Tasks)
    /\ gen_pc' = IF work_allowed THEN "put" ELSE "done"
    /\ UNCHANGED << crawl, shared, gen_idx, net_vars, parser_vars, run_vars, obs_vars,
                    errors_pushed >>

\* self._request_queue.put(task)
GenPut ==
    /\ gen_pc = "put"
    /\ ~Full(request_queue, NumNet)
    /\ request_queue' = Append(request_queue, Tasks[gen_idx])
    /\ pushed' = pushed \cup {Tasks[gen_idx]}
    /\ gen_idx' = gen_idx + 1
    /\ gen_pc' = "next"
    /\ UNCHANGED << crawl, response_queue, fatal_errors, work_allowed, pause_event,
                    resume_event, network_try_count, net_vars, parser_vars,
                    run_vars, fetches, rejected, dispatched, succeeded,
                    results_put, handler_raised, errors_pushed >>

\* the task sequence is exhausted: the thread ends
GenExhausted ==
    /\ gen_pc = "next"
    /\ gen_idx > Len(Tasks)
    /\ gen_pc' = "done"
    /\ UNCHANGED << crawl, shared, gen_idx, net_vars, parser_vars, run_vars, obs_vars,
                    errors_pushed >>

\* pulling the next task raises (or yields no Request: UnknownTaskType):
\* except Exception as ex: self._fatal_errors.put(ex)
GenRaise ==
    /\ gen_pc = "next"
    /\ gen_idx <= Len(Tasks)
    /\ gen_idx \in crawl.gen_raises
    /\ fatal_errors' = Append(fatal_errors, <<"generator", gen_idx>>)
    /\ errors_pushed' = errors_pushed + 1
    /\ gen_pc' = "done"
    /\ UNCHANGED << crawl, request_queue, response_queue, work_allowed, pause_event,
                    resume_event, network_try_count, gen_idx, net_vars,
                    parser_vars, run_vars, obs_vars >>

Generator == GenNext \/ GenPut \/ GenExhausted \/ GenRaise

\* ---------------------------------------------------------- worker_network
\* req = self._request_queue.get(); if req is None: return
NetGet(w) ==
    /\ net_pc[w] = "get"
    /\ request_queue # << >>
    /\ request_queue' = Tail(request_queue)
    /\ IF Head(request_queue) = None
          THEN /\ net_pc' = [net_pc EXCEPT ![w] = "done"]
               /\ UNCHANGED net_req
          ELSE /\ net_pc' = [net_pc EXCEPT ![w] = "mark"]
               /\ net_req' = [net_req EXCEPT ![w] = Head(request_queue)]
    /\ UNCHANGED << crawl, response_queue, fatal_errors, work_allowed, pause_event,
                    resume_event, network_try_count, gen_vars, net_active,
                    parser_vars, run_vars, obs_vars, errors_pushed >>

\* self._net_threads[id(current_thread())]['active'] = True
NetMarkActive(w) ==
    /\ net_pc[w] = "mark"
    /\ net_active' = [net_active EXCEPT ![w] = TRUE]
    /\ net_pc' = [net_pc EXCEPT ![w] = "fetch"]
    /\ UNCHANGED << crawl, shared, gen_vars, net_req, parser_vars, run_vars, obs_vars,
                    errors_pushed >>

\* resp = self.network_transport.process_request(req) returns
NetFetchOk(w) ==
    /\ net_pc[w] = "fetch"
    /\ fetches' = [fetches EXCEPT ![net_req[w]] = @ + 1]
    /\ succeeded' = [succeeded EXCEPT ![net_req[w]] = @ + 1]
    /\ net_pc' = [net_pc EXCEPT ![w] = "put_response"]
    /\ UNCHANGED << crawl, shared, gen_vars, net_req, net_active, parser_vars, run_vars,
                    pushed, rejected, dispatched, results_put, handler_raised,
                    errors_pushed >>

\* process_request raises NetworkError: count the try, then reject or retry
NetFetchNetworkError(w) ==
    /\ net_pc[w] = "fetch"
    /\ net_req[w] \in crawl.flaky
    /\ fetches' = [fetches EXCEPT ![net_req[w]] = @ + 1]
    /\ network_try_count' = [network_try_count EXCEPT ![net_req[w]] = @ + 1]
    /\ IF OverLimit(network_try_count'[net_req[w]])
          THEN \* self.process_rejected_request(req, None, ex)
               /\ rejected' = [rejected EXCEPT ![net_req[w]] = @ + 1]
               /\ net_pc' = [net_pc EXCEPT ![w] = "unmark"]
          ELSE /\ net_pc' = [net_pc EXCEPT ![w] = "put_retry"]
               /\ UNCHANGED rejected
    /\ UNCHANGED << crawl, request_queue, response_queue, fatal_errors, work_allowed,
                    pause_event, resume_event, gen_vars, net_req, net_active,
                    parser_vars, run_vars, pushed, dispatched, succeeded,
                    results_put, handler_raised, errors_pushed >>

\* a worker that forwards the Request of a failed fetch to the parsers
NetFetchErrorForwarded(w) ==
    /\ net_pc[w] = "fetch"
    /\ net_req[w] \in crawl.broken
    /\ fetches' = [fetches EXCEPT ![net_req[w]] = @ + 1]
    /\ fatal_errors' = Append(fatal_errors, <<"fetch", net_req[w]>>)
    /\ errors_pushed' = errors_pushed + 1
    /\ net_pc' = [net_pc EXCEPT ![w] = "put_response"]
    /\ UNCHANGED << crawl, request_queue, response_queue, work_allowed, pause_event,
                    resume_event, network_try_count, gen_vars, net_req,
                    net_active, parser_vars, run_vars, pushed, rejected,
                    dispatched, succeeded, results_put, handler_raised >>

\* process_request raises another Exception: self._fatal_errors.put(ex)
NetFetchError(w) ==
    /\ net_pc[w] = "fetch"
    /\ net_req[w] \in crawl.broken
    /\ fetches' = [fetches EXCEPT ![net_req[w]] = @ + 1]
    /\ fatal_errors' = Append(fatal_errors, <<"fetch", net_req[w]>>)
    /\ errors_pushed' = errors_pushed + 1
    /\ net_pc' = [net_pc EXCEPT ![w] = "unmark"]
    /\ UNCHANGED << crawl, request_queue, response_queue, work_allowed, pause_event,
                    resume_event, network_try_count, gen_vars, net_req,
                    net_active, parser_vars, run_vars, pushed, rejected,
                    dispatched, succeeded, results_put, handler_raised >>

\* self._request_queue.put(req)
NetPutRetry(w) ==
    /\ net_pc[w] = "put_retry"
    /\ ~Full(request_queue, NumNet)
    /\ request_queue' = Append(request_queue, net_req[w])
    /\ net_pc' = [net_pc EXCEPT ![w] = "unmark"]
    /\ UNCHANGED << crawl, response_queue, fatal_errors, work_allowed, pause_event,
                    resume_event, network_try_count, gen_vars, net_req,
                    net_active, parser_vars, run_vars, obs_vars, errors_pushed >>

\* self._response_queue.put((req, resp)); the pair is written as its Request
NetPutResponse(w) ==
    /\ net_pc[w] = "put_response"
    /\ ~Full(response_queue, NumParsers)
    /\ response_queue' = Append(response_queue, net_req[w])
    /\ results_put' = [results_put EXCEPT ![net_req[w]] = @ + 1]
    /\ net_pc' = [net_pc EXCEPT ![w] = "unmark"]
    /\ UNCHANGED << crawl, request_queue, fatal_errors, work_allowed, pause_event,
                    resume_event, network_try_count, gen_vars, net_req,
                    net_active, parser_vars, run_vars, pushed, fetches,
                    rejected, dispatched, succeeded, handler_raised,
                    errors_pushed >>

\* finally: self._net_threads[id(current_thread())]['active'] = False
NetMarkInactive(w) ==
    /\ net_pc[w] = "unmark"
    /\ net_active' = [net_active EXCEPT ![w] = FALSE]
    /\ net_req' = [net_req EXCEPT ![w] = None]
    /\ net_pc' = [net_pc EXCEPT ![w] = "get"]
    /\ UNCHANGED << crawl, shared, gen_vars, parser_vars, run_vars, obs_vars,
                    errors_pushed >>

Network(w) ==
    \/ NetGet(w) \/ NetMarkActive(w) \/ NetFetchOk(w) \/ NetFetchNetworkError(w)
    \/ NetFetchError(w) \/ NetPutRetry(w) \/ NetPutResponse(w)
    \/ NetMarkInactive(w)

\* ----------------------------------------------------------- worker_parser
\* task = self._response_queue.get(True, 0.5) returns an item;
\* if task is None: return; else handler = ...; hdl_result = handler(req, resp)
ParserGet(p) ==
    /\ parser_pc[p] = "get"
    /\ response_queue # << >>
    /\ response_queue' = Tail(response_queue)
    /\ IF Head(response_queue) = None
          THEN /\ parser_pc' = [parser_pc EXCEPT ![p] = "done"]
               /\ UNCHANGED << parser_req, parser_idx, dispatched >>
          ELSE /\ parser_pc' = [parser_pc EXCEPT ![p] = "handle"]
               /\ parser_req' = [parser_req EXCEPT ![p] = Head(response_queue)]
               /\ parser_idx' = [parser_idx EXCEPT ![p] = 1]
               /\ dispatched' = [dispatched EXCEPT ![Head(response_queue)] = @ + 1]
    /\ UNCHANGED << crawl, request_queue, fatal_errors, work_allowed, pause_event,
                    resume_event, network_try_count, gen_vars, net_vars,
                    parser_paused, run_vars, pushed, fetches, rejected,
                    succeeded, results_put, handler_raised, errors_pushed >>

\* except Empty: if self._pause_event: ...['paused'] = True
ParserTimeout(p) ==
    /\ parser_pc[p] = "get"
    /\ response_queue = << >>
    /\ IF PauseRequested
          THEN /\ parser_paused' = [parser_paused EXCEPT ![p] = TRUE]
               /\ parser_pc' = [parser_pc EXCEPT ![p] = "wait"]
          ELSE UNCHANGED << parser_paused, parser_pc >>
    /\ UNCHANGED << crawl, shared, gen_vars, net_vars, parser_req, parser_idx,
                    run_vars, obs_vars, errors_pushed >>

\* self._resume_event.wait() returns
ParserResumed(p) ==
    /\ parser_pc[p] = "wait"
    /\ resume_event
    /\ parser_pc' = [parser_pc EXCEPT ![p] = "resumed"]
    /\ UNCHANGED << crawl, shared, gen_vars, net_vars, parser_req, parser_idx,
                    parser_paused, run_vars, obs_vars, errors_pushed >>

\* self._parser_threads[id(current_thread())]['paused'] = False
ParserUnpause(p) ==
    /\ parser_pc[p] = "resumed"
    /\ parser_paused' = [parser_paused EXCEPT ![p] = FALSE]
    /\ parser_pc' = [parser_pc EXCEPT ![p] = "get"]
    /\ UNCHANGED << crawl, shared, gen_vars, net_vars, parser_req, parser_idx,
                    run_vars, obs_vars, errors_pushed >>

\* for item in hdl_result: the handler yields its next item, a Request
\* (assert isinstance(item, Request) passes)
ParserNextItem(p) ==
    /\ parser_pc[p] = "handle"
    /\ parser_idx[p] <= Len(Yields(parser_req[p]))
    /\ parser_pc' = [parser_pc EXCEPT ![p] = "put"]
    /\ UNCHANGED << crawl, shared, gen_vars, net_vars, parser_req, parser_idx,
                    parser_paused, run_vars, obs_vars, errors_pushed >>

\* self._request_queue.put(item)
ParserYield(p) ==
    /\ parser_pc[p] = "put"
    /\ ~Full(request_queue, NumNet)
    /\ request_queue' = Append(request_queue, Yields(parser_req[p])[parser_idx[p]])
    /\ pushed' = pushed \cup {Yields(parser_req[p])[parser_idx[p]]}
    /\ parser_idx' = [parser_idx EXCEPT ![p] = @ + 1]
    /\ parser_pc' = [parser_pc EXCEPT ![p] = "handle"]
    /\ UNCHANGED << crawl, response_queue, fatal_errors, work_allowed, pause_event,
                    resume_event, network_try_count, gen_vars, net_vars,
                    parser_req, parser_paused, run_vars, fetches,
                    rejected, dispatched, succeeded, results_put,
                    handler_raised, errors_pushed >>

\* hdl_result is None or exhausted: back to the top of the loop
ParserHandled(p) ==
    /\ parser_pc[p] = "handle"
    /\ parser_idx[p] > Len(Yields(parser_req[p]))
    /\ parser_pc' = [parser_pc EXCEPT ![p] = "get"]
    /\ parser_req' = [parser_req EXCEPT ![p] = None]
    /\ parser_idx' = [parser_idx EXCEPT ![p] = 1]
    /\ UNCHANGED << crawl, shared, gen_vars, net_vars, parser_paused, run_vars,
                    obs_vars, errors_pushed >>

\* a parser whose except clause is outside its loop: the error is pushed and
\* the thread ends
ParserRaiseAndDie(p) ==
    /\ parser_pc[p] = "handle"
    /\ parser_req[p] \in crawl.faulty
    /\ fatal_errors' = Append(fatal_errors, <<"handler", parser_req[p]>>)
    /\ errors_pushed' = errors_pushed + 1
    /\ handler_raised' = handler_raised \cup {<<"handler", parser_req[p]>>}
    /\ parser_pc' = [parser_pc EXCEPT ![p] = "done"]
    /\ parser_req' = [parser_req EXCEPT ![p] = None]
    /\ parser_idx' = [parser_idx EXCEPT ![p] = 1]
    /\ UNCHANGED << crawl, request_queue, response_queue, work_allowed,
                    pause_event, resume_event, network_try_count, gen_vars,
                    net_vars, parser_paused, run_vars, pushed, fetches,
                    rejected, dispatched, succeeded, results_put >>

\* the handler raises (at its call or when asked for its next item), or
\* yields no Request (the assert):
\* except Exception as ex: self._fatal_errors.put(ex)
ParserRaise(p) ==
    /\ parser_pc[p] = "handle"
    /\ parser_req[p] \in crawl.faulty
    /\ fatal_errors' = Append(fatal_errors, <<"handler", parser_req[p]>>)
    /\ errors_pushed' = errors_pushed + 1
    /\ handler_raised' = handler_raised \cup {<<"handler", parser_req[p]>>}
    /\ parser_pc' = [parser_pc EXCEPT ![p] = "get"]
    /\ parser_req' = [parser_req EXCEPT ![p] = None]
    /\ parser_idx' = [parser_idx EXCEPT ![p] = 1]
    /\ UNCHANGED << crawl, request_queue, response_queue, work_allowed, pause_event,
                    resume_event, network_try_count, gen_vars, net_vars,
                    parser_paused, run_vars, pushed, fetches, rejected,
                    dispatched, succeeded, results_put >>

Parser(p) ==
    \/ ParserGet(p) \/ ParserTimeout(p) \/ ParserResumed(p) \/ ParserUnpause(p)
    \/ ParserNextItem(p) \/ ParserYield(p) \/ ParserHandled(p)
    \/ ParserRaise(p)

\* ----------------------------------------------------------------- run()
others == << gen_vars, net_vars, parser_vars, obs_vars, errors_pushed >>

\* ex = self._fatal_errors.get(True, 0.1) returns an error: raise ex; finally:
RunPollError ==
    /\ run_pc = "poll"
    /\ fatal_errors # << >>
    /\ fatal_errors' = Tail(fatal_errors)
    /\ run_ex' = Head(fatal_errors)
    /\ first_taken' = Head(fatal_errors)
    /\ run_pc' = "put_net_sentinels"
    /\ run_i' = 1
    /\ UNCHANGED << crawl, request_queue, response_queue, work_allowed, pause_event,
                    resume_event, network_try_count, others, hook_calls,
                    quiescent_view >>

\* ex = self._fatal_errors.get(True, 0.1) raises Empty: pass
RunPollEmpty ==
    /\ run_pc = "poll"
    /\ fatal_errors = << >>
    /\ run_pc' = "check_generator"
    /\ UNCHANGED << crawl, shared, others, run_i, run_ex, first_taken, hook_calls,
                    quiescent_view >>

\* a run() that goes on to the queue checks whether or not the generator
\* thread is alive
RunCheckGeneratorSkipped ==
    /\ run_pc = "check_generator"
    /\ run_pc' = "check_requests"
    /\ UNCHANGED << crawl, shared, others, run_i, run_ex, first_taken,
                    hook_calls, quiescent_view >>

\* if not task_generator_thread.is_alive():
RunCheckGenerator ==
    /\ run_pc = "check_generator"
    /\ run_pc' = IF gen_pc = "done" THEN "check_requests" ELSE "poll"
    /\ UNCHANGED << crawl, shared, others, run_i, run_ex, first_taken, hook_calls,
                    quiescent_view >>

\* not self._request_queue.qsize()
RunCheckRequests ==
    /\ run_pc = "check_requests"
    /\ run_pc' = IF qsize(request_queue) = 0 THEN "check_responses" ELSE "poll"
    /\ UNCHANGED << crawl, shared, others, run_i, run_ex, first_taken, hook_calls,
                    quiescent_view >>

\* and not self._response_queue.qsize()
RunCheckResponses ==
    /\ run_pc = "check_responses"
    /\ run_pc' = IF qsize(response_queue) = 0 THEN "set_pause" ELSE "poll"
    /\ UNCHANGED << crawl, shared, others, run_i, run_ex, first_taken, hook_calls,
                    quiescent_view >>

\* self._pause_event.set()
RunSetPause ==
    /\ run_pc = "set_pause"
    /\ pause_event' = TRUE
    /\ run_pc' = "wait_paused"
    /\ run_i' = 1
    /\ UNCHANGED << crawl, request_queue, response_queue, fatal_errors, work_allowed,
                    resume_event, network_try_count, others, run_ex,
                    first_taken, hook_calls, quiescent_view >>

\* while any(not x['paused'] for x in self._parser_threads.values()): sleep
\* One flag is read per step; a flag found False restarts the scan.
RunWaitPaused ==
    /\ run_pc = "wait_paused"
    /\ IF ~parser_paused[run_i]
          THEN run_i' = 1 /\ UNCHANGED run_pc
          ELSE IF run_i < NumParsers
                  THEN run_i' = run_i + 1 /\ UNCHANGED run_pc
                  ELSE run_i' = 1 /\ run_pc' = "recheck_requests"
    /\ UNCHANGED << crawl, shared, others, run_ex, first_taken, hook_calls,
                    quiescent_view >>

\* if (not self._request_queue.qsize()
RunRecheckRequests ==
    /\ run_pc = "recheck_requests"
    /\ run_pc' = IF qsize(request_queue) = 0 THEN "recheck_responses"
                                             ELSE "clear_pause"
    /\ UNCHANGED << crawl, shared, others, run_i, run_ex, first_taken, hook_calls,
                    quiescent_view >>

\* and not self._response_queue.qsize()
RunRecheckResponses ==
    /\ run_pc = "recheck_responses"
    /\ run_pc' = IF qsize(response_queue) = 0 THEN "recheck_active"
                                              ELSE "clear_pause"
    /\ run_i' = 1
    /\ UNCHANGED << crawl, shared, others, run_ex, first_taken, hook_calls,
                    quiescent_view >>

\* and all(not x['active'] for x in self._net_threads.values())):
\* one flag is read per step
RunRecheckActive ==
    /\ run_pc = "recheck_active"
    /\ IF net_active[run_i]
          THEN run_i' = 1 /\ run_pc' = "clear_pause"
          ELSE IF run_i < NumNet
                  THEN run_i' = run_i + 1 /\ UNCHANGED run_pc
                  ELSE run_i' = 1 /\ run_pc' = "disallow"
    /\ UNCHANGED << crawl, shared, others, run_ex, first_taken, hook_calls,
                    quiescent_view >>

\* self._work_allowed = False
RunDisallow ==
    /\ run_pc = "disallow"
    /\ work_allowed' = FALSE
    /\ quiescent_view' = [set |-> TRUE,
                          tasks |-> qsize(request_queue),
                          results |-> qsize(response_queue),
                          active |-> {w \in NetIds : net_active[w]}]
    /\ run_pc' = "clear_pause"
    /\ UNCHANGED << crawl, request_queue, response_queue, fatal_errors, pause_event,
                    resume_event, network_try_count, others, run_i, run_ex,
                    first_taken, hook_calls >>

\* self._pause_event.clear()
RunClearPause ==
    /\ run_pc = "clear_pause"
    /\ pause_event' = FALSE
    /\ run_pc' = "set_resume"
    /\ UNCHANGED << crawl, request_queue, response_queue, fatal_errors, work_allowed,
                    resume_event, network_try_count, others, run_i, run_ex,
                    first_taken, hook_calls, quiescent_view >>

\* self._resume_event.set()
RunSetResume ==
    /\ run_pc = "set_resume"
    /\ resume_event' = TRUE
    /\ run_pc' = "wait_unpaused"
    /\ run_i' = 1
    /\ UNCHANGED << crawl, request_queue, response_queue, fatal_errors, work_allowed,
                    pause_event, network_try_count, others, run_ex,
                    first_taken, hook_calls, quiescent_view >>

\* while any(x['paused'] for x in self._parser_threads.values()): sleep
RunWaitUnpaused ==
    /\ run_pc = "wait_unpaused"
    /\ IF parser_paused[run_i]
          THEN run_i' = 1 /\ UNCHANGED run_pc
          ELSE IF run_i < NumParsers
                  THEN run_i' = run_i + 1 /\ UNCHANGED run_pc
                  ELSE run_i' = 1 /\ run_pc' = "clear_resume"
    /\ UNCHANGED << crawl, shared, others, run_ex, first_taken, hook_calls,
                    quiescent_view >>

\* self._resume_event.clear(); then the test of while self._work_allowed:
\* the loop goes on, or ends and the finally block starts
RunClearResume ==
    /\ run_pc = "clear_resume"
    /\ resume_event' = FALSE
    /\ run_pc' = IF work_allowed THEN "poll" ELSE "put_net_sentinels"
    /\ UNCHANGED << crawl, request_queue, response_queue, fatal_errors, work_allowed,
                    pause_event, network_try_count, others, run_i, run_ex,
                    first_taken, hook_calls, quiescent_view >>

\* finally: for x in range(num_network_threads): self._request_queue.put(None)
RunPutNetSentinel ==
    /\ run_pc = "put_net_sentinels"
    /\ ~Full(request_queue, NumNet)
    /\ request_queue' = Append(request_queue, None)
    /\ IF run_i < NumNet
          THEN run_i' = run_i + 1 /\ UNCHANGED run_pc
          ELSE run_i' = 1 /\ run_pc' = "put_parser_sentinels"
    /\ UNCHANGED << crawl, response_queue, fatal_errors, work_allowed, pause_event,
                    resume_event, network_try_count, others, run_ex,
                    first_taken, hook_calls, quiescent_view >>

\* for x in range(num_parsers): self._response_queue.put(None)
RunPutParserSentinel ==
    /\ run_pc = "put_parser_sentinels"
    /\ ~Full(response_queue, NumParsers)
    /\ response_queue' = Append(response_queue, None)
    /\ IF run_i < NumParsers
          THEN run_i' = run_i + 1 /\ UNCHANGED run_pc
          ELSE run_i' = 1 /\ run_pc' = "join_net"
    /\ UNCHANGED << crawl, request_queue, fatal_errors, work_allowed, pause_event,
                    resume_event, network_try_count, others, run_ex,
                    first_taken, hook_calls, quiescent_view >>

\* [x['thread'].join() for x in self._net_threads.values()]
RunJoinNet ==
    /\ run_pc = "join_net"
    /\ net_pc[run_i] = "done"
    /\ IF run_i < NumNet
          THEN run_i' = run_i + 1 /\ UNCHANGED run_pc
          ELSE run_i' = 1 /\ run_pc' = "join_parsers"
    /\ UNCHANGED << crawl, shared, others, run_ex, first_taken, hook_calls,
                    quiescent_view >>

\* [x['thread'].join() for x in self._parser_threads.values()]
RunJoinParsers ==
    /\ run_pc = "join_parsers"
    /\ parser_pc[run_i] = "done"
    /\ IF run_i < NumParsers
          THEN run_i' = run_i + 1 /\ UNCHANGED run_pc
          ELSE run_i' = 1 /\ run_pc' = "final_drain"
    /\ UNCHANGED << crawl, shared, others, run_ex, first_taken, hook_calls,
                    quiescent_view >>

\* a run() whose finally block does not look at the Fatal Error Channel
RunFinalDrainSkipped ==
    /\ run_pc = "final_drain"
    /\ fatal_errors # << >>
    /\ hook_calls' = hook_calls + 1
    /\ run_pc' = IF run_ex = NoError THEN "returned" ELSE "raised"
    /\ UNCHANGED << crawl, shared, others, run_i, run_ex, first_taken,
                    quiescent_view >>

\* try: ex = self._fatal_errors.get(True, 0.1) ... else: raise ex
\* The raise leaves the finally block: it replaces the exception in flight
\* and skips the rest of the block.
RunFinalDrainError ==
    /\ run_pc = "final_drain"
    /\ fatal_errors # << >>
    /\ fatal_errors' = Tail(fatal_errors)
    /\ run_ex' = Head(fatal_errors)
    /\ first_taken' = IF first_taken = NoError THEN Head(fatal_errors)
                                               ELSE first_taken
    /\ run_pc' = "raised"
    /\ UNCHANGED << crawl, request_queue, response_queue, work_allowed, pause_event,
                    resume_event, network_try_count, others, run_i, hook_calls,
                    quiescent_view >>

\* except Empty: pass; self.shutdown_hook(); the finally block ends: the
\* exception in flight, if any, propagates, otherwise run() returns
RunFinalDrainEmpty ==
    /\ run_pc = "final_drain"
    /\ fatal_errors = << >>
    /\ hook_calls' = hook_calls + 1
    /\ run_pc' = IF run_ex = NoError THEN "returned" ELSE "raised"
    /\ UNCHANGED << crawl, shared, others, run_i, run_ex, first_taken,
                    quiescent_view >>

Run ==
    \/ RunPollError \/ RunPollEmpty \/ RunCheckGenerator
    \/ RunCheckRequests \/ RunCheckResponses \/ RunSetPause \/ RunWaitPaused
    \/ RunRecheckRequests \/ RunRecheckResponses \/ RunRecheckActive
    \/ RunDisallow \/ RunClearPause \/ RunSetResume \/ RunWaitUnpaused
    \/ RunClearResume \/ RunPutNetSentinel \/ RunPutParserSentinel
    \/ RunJoinNet \/ RunJoinParsers \/ RunFinalDrainError
    \/ RunFinalDrainEmpty

\* ------------------------------------------------------------ specification
Next ==
    \/ Generator
    \/ \E w \in NetIds : Network(w)
    \/ \E p \in ParserIds : Parser(p)
    \/ Run

Spec == Init /\ [][Next]_vars

\* the same program run on the wide crawl
WideSpec == InitWide /\ [][Next]_vars

\* Scheduling: every thread is an OS thread, and every wait in the code is a
\* blocking queue call that is woken when the queue changes, an Event.wait,
\* a join, or a loop that polls again after a sleep.  So a thread whose next
\* step is possible again and again eventually takes it (strong fairness):
\* a polling loop is not starved by a flag that is only momentarily set, and
\* a blocked put or get is not overtaken for ever.
Fairness ==
    /\ SF_vars(Generator)
    /\ \A w \in NetIds : SF_vars(Network(w))
    /\ \A p \in ParserIds : SF_vars(Parser(p))
    /\ SF_vars(Run)

FairSpec == Spec /\ Fairness

RunFinished == run_pc \in {"returned", "raised"}

\* ------------------------------------------------------------------ claims
\* Some fetch failed, or the generator or a handler raised.
FailureSeen == errors_pushed > 0 \/ \E r \in Requests : network_try_count[r] > 0

\* Some thread can take a step: not every thread is blocked in a queue call,
\* an Event.wait or a join, or has ended.
CanStep == ENABLED Next

\* C1 (as claimed): with every fetch succeeding and no handler or generator
\* error, run() never hangs: until it has returned (STOPPED), some thread can
\* always take a step.
C1_NeverHangs == (run_pc = "returned" \/ FailureSeen) \/ CanStep

\* The liveness reading of C1, for FairSpec: run() eventually returns.
C1_Terminates == <>(run_pc = "returned" \/ FailureSeen)

\* C2 (as claimed): when the DRAINING check disallowed work, the Task Queue
\* and the Result Queue were empty and no network worker was active.
C2_QuiescentAtDisallow ==
    quiescent_view.set =>
        /\ quiescent_view.tasks = 0
        /\ quiescent_view.results = 0
        /\ quiescent_view.active = {}

InQueue(q) == {q[i] : i \in 1..Len(q)} \ {None}

\* C3 (as claimed): when run() returns without a fatal error, every Request
\* ever put on the Task Queue was rejected or was dispatched to a handler,
\* and neither queue still holds a Request or a pair.
C3_NoLostWork ==
    run_pc = "returned" =>
        /\ \A r \in pushed : rejected[r] > 0 \/ dispatched[r] > 0
        /\ InQueue(request_queue) = {}
        /\ InQueue(response_queue) = {}

\* C4 (as claimed): network_try_count never exceeds network_try_limit.
C4_NeverExceedsLimit ==
    \A r \in Requests : network_try_count[r] <= TryLimit

Holders(r) ==
    {w \in NetIds : net_req[w] = r /\ net_pc[w] \in {"mark", "fetch", "put_retry", "put_response"}}

\* C4 (amended): network_try_count never exceeds network_try_limit + 1, and
\* a Request whose count exceeds the limit has been rejected and is never
\* on the Task Queue or retried again.
C4_ExceedsOnlyWhenRejected ==
    \A r \in Requests :
        /\ network_try_count[r] <= TryLimit + 1
        /\ network_try_count[r] > TryLimit =>
              /\ rejected[r] = 1
              /\ r \notin InQueue(request_queue)
              /\ Holders(r) = {}

C4_Witness ==
    \E r \in Requests :
        /\ network_try_count[r] = TryLimit + 1
        /\ rejected[r] = 1
        /\ RunFinished

\* The safety half of C5: a Request is rejected exactly when its
\* (network_try_limit+1)-th transient failure has happened, is rejected once,
\* and is then neither re-enqueued nor fetched again.
C5_Budget ==
    \A r \in Requests :
        /\ network_try_count[r] <= TryLimit + 1
        /\ rejected[r] = (IF network_try_count[r] > TryLimit THEN 1 ELSE 0)
        /\ rejected[r] = 1 => /\ r \notin InQueue(request_queue)
                              /\ Holders(r) = {}
                              /\ fetches[r] >= TryLimit + 1
        /\ (rejected[r] = 1 /\ fetches[r] = network_try_count[r]) =>
              fetches[r] = TryLimit + 1

RejectedSome == \E r \in Requests : rejected[r] = 1

\* C5 (as claimed): the retry budget is kept, and a run in which a Request
\* exhausted its retries (and no fatal error occurred) still reaches STOPPED:
\* until run() has finished, some thread can always take a step.
C5_RetryBudgetAndStop ==
    /\ C5_Budget
    /\ (RejectedSome /\ errors_pushed = 0) => (RunFinished \/ CanStep)

\* The liveness reading of the second half of C5, for FairSpec.
C5_RejectedThenStops == RejectedSome ~> (RunFinished \/ errors_pushed > 0)

\* C6 (as claimed): when run() raises, it raises the first error the
\* Orchestrator took from the Fatal Error Channel.
C6_RaisesFirstTaken ==
    run_pc = "raised" => run_ex = first_taken

\* run() took a fatal error in its RUNNING loop and entered the finally block
FatalTaken == run_ex # NoError /\ run_pc \notin {"raised", "returned"}

\* C7 (as claimed): after the Orchestrator takes a fatal error in RUNNING,
\* the teardown never hangs: until run() has raised, some thread can always
\* take a step (a worker towards its exit, or run() in its put and join loops).
C7_FatalTeardownNeverHangs == FatalTaken => CanStep

\* The liveness reading of C7, for FairSpec: every worker eventually exits,
\* both join loops complete and run() raises.
C7_FatalTeardownCompletes ==
    FatalTaken ~> (run_pc = "raised"
                   /\ \A w \in NetIds : net_pc[w] = "done"
                   /\ \A p \in ParserIds : parser_pc[p] = "done")

AllJoined ==
    /\ \A w \in NetIds : net_pc[w] = "done"
    /\ \A p \in ParserIds : parser_pc[p] = "done"

\* C8 (as claimed): whenever run() has returned or raised, the shutdown hook
\* was called exactly once, and it is only ever called after all joins.
C8_HookExactlyOnce ==
    /\ RunFinished => hook_calls = 1
    /\ hook_calls > 0 => (hook_calls = 1 /\ AllJoined)

\* only handler invocations raised in this run
OnlyHandlersRaised ==
    handler_raised # {} /\ errors_pushed = Cardinality(handler_raised)

\* C9 (as claimed): in a run in which handler invocations raised (and
\* nothing else did), once run() has finished it has raised one of the
\* handlers' errors and the Fatal Error Channel is empty.
C9_HandlerErrorRaisedAndDrained ==
    (RunFinished /\ OnlyHandlersRaised) =>
        /\ run_pc = "raised"
        /\ run_ex \in handler_raised
        /\ fatal_errors = << >>

\* C10: if any worker ever put an error on the Fatal Error Channel, run()
\* does not return normally.
C10_NoErrorSwallowed ==
    run_pc = "returned" => errors_pushed = 0

\* run() raised an error it found in the final drain, after the quiescence
\* check had disallowed work: the error was pushed after the last poll.
C10_Witness ==
    /\ run_pc = "raised"
    /\ ~work_allowed
    /\ hook_calls = 0
    /\ errors_pushed > 0

\* number of times Request r is in queue q
Occurrences(q, r) == Cardinality({i \in 1..Len(q) : q[i] = r})

\* network workers about to put the pair of Request r on the Result Queue
Forwarding(r) == {w \in NetIds : net_pc[w] = "put_response" /\ net_req[w] = r}

\* C11: every pair in (or ever put on) the Result Queue comes from a
\* successful fetch of its Request: the pairs of a Request put so far, plus
\* those a worker is about to put, are exactly its successful fetches, so a
\* failed attempt (transient, rejected or another error) puts none.
C11_ResultsFromSuccessfulFetches ==
    \A r \in Requests :
        /\ results_put[r] + Cardinality(Forwarding(r)) = succeeded[r]
        /\ Occurrences(response_queue, r) <= results_put[r]
        /\ fetches[r] >= succeeded[r]

\* a Request failed transiently, was fetched again with success, and its
\* pair is in the Result Queue
C11_Witness ==
    \E r \in Requests :
        /\ network_try_count[r] > 0
        /\ fetches[r] > succeeded[r]
        /\ Occurrences(response_queue, r) = 1

\* the places that hold Request r: the Task Queue, the network workers, the
\* Result Queue and the parser workers
Owners(r) ==
    Occurrences(request_queue, r) + Cardinality(Holders(r))
    + Occurrences(response_queue, r)
    + Cardinality({p \in ParserIds : parser_req[p] = r})

\* C12 (as claimed): a Request is never held in two places at once; without
\* transient failures and fatal errors no Request is fetched or dispatched
\* twice, and once run() has returned every Request put on the Task Queue
\* was fetched exactly once and dispatched exactly once.
C12_ExactlyOnce ==
    /\ \A r \in Requests : Owners(r) <= 1
    /\ ~FailureSeen =>
          /\ \A r \in Requests : fetches[r] <= 1 /\ dispatched[r] <= 1
          /\ run_pc = "returned" =>
                \A r \in pushed : fetches[r] = 1 /\ dispatched[r] = 1

\* the part of C12 that does not depend on run() finishing its work
C12_AtMostOnce ==
    /\ \A r \in Requests : Owners(r) <= 1
    /\ ~FailureSeen => \A r \in Requests : fetches[r] <= 1 /\ dispatched[r] <= 1

\* C13 (as claimed): a parser worker sets paused = true and starts waiting
\* for resume only while the pause flag is set.
C13_PausesOnlyWhenRequested ==
    [][\A p \in ParserIds :
          ((~parser_paused[p] /\ parser_paused'[p])
             \/ (parser_pc[p] = "get" /\ parser_pc'[p] = "wait")) => pause_event]_vars

\* run() has seen every parser paused (line 199) and has not yet signalled
\* resume (line 219)
InRecheck ==
    run_pc \in {"recheck_requests", "recheck_responses", "recheck_active",
                "disallow", "clear_pause", "set_resume"}

\* C14 (as claimed): during the recheck every parser worker still reports
\* paused = true and is not pulling from the Result Queue, running a handler
\* or pushing onto the Task Queue.
C14_FrozenDuringRecheck ==
    InRecheck =>
        \A p \in ParserIds :
            /\ parser_paused[p]
            /\ parser_pc[p] \in {"wait", "resumed"}

\* the DRAINING recheck of lines 205-211 has just failed
RecheckFailed == run_pc = "clear_pause" /\ work_allowed

\* Request r is pending: in a queue or held by a worker
Pending(r) == Owners(r) > 0

\* the first half of C15: after a failed recheck the Orchestrator is
\* eventually back in RUNNING with work allowed, the pause flag and the resume
\* signal cleared
C15_BackToRunning ==
    RecheckFailed ~> (run_pc = "poll" /\ work_allowed /\ ~pause_event
                      /\ ~resume_event)

\* the second half of C15: a Request pending when the recheck failed is
\* eventually dispatched to a handler or rejected (unless a fatal error or a
\* later quiescence check ends RUNNING first)
C15_PendingProcessed ==
    \A r \in Requests :
        (RecheckFailed /\ Pending(r)) ~>
            (dispatched[r] > 0 \/ rejected[r] > 0 \/ errors_pushed > 0
             \/ ~work_allowed)

\* C15 (as claimed): a failed recheck resumes the pipeline.
C15_FailedRecheckResumes == C15_BackToRunning /\ C15_PendingProcessed

\* both join loops of run() have completed
JoinsCompleted == run_pc \in {"final_drain", "returned", "raised"}

\* C16 (as claimed): once the quiescence check has disallowed work (here
\* with no Request left anywhere and no fatal error), the sentinel shutdown
\* never hangs: until both join loops have completed, some thread can take a
\* step (run() putting a sentinel or joining, a worker taking its sentinel).
C16_SentinelShutdownNeverHangs ==
    (quiescent_view.set /\ errors_pushed = 0
       /\ \A r \in Requests : ~Pending(r))
        => (JoinsCompleted \/ CanStep)

\* network worker w is blocked in a put: a retry onto the full Task Queue
\* or a pair onto the full Result Queue
NetBlockedPushing(w) ==
    \/ net_pc[w] = "put_retry" /\ Full(request_queue, NumNet)
    \/ net_pc[w] = "put_response" /\ Full(response_queue, NumParsers)

\* every worker thread and the generator are blocked pushing while the
\* Orchestrator is in RUNNING (work allowed, no fatal error, no sentinel put)
BackpressureDeadlock ==
    /\ work_allowed
    /\ errors_pushed = 0
    /\ run_pc \in {"poll", "check_generator", "check_requests",
                    "check_responses"}
    /\ \A w \in NetIds : NetBlockedPushing(w)
    /\ \A p \in ParserIds :
           parser_pc[p] = "put" /\ Full(request_queue, NumNet)
    /\ gen_pc = "put" /\ Full(request_queue, NumNet)

\* C17 (as claimed): while work is allowed the system never reaches a state
\* in which every network worker, every parser worker and the generator are
\* blocked pushing onto a full queue.
C17_BackpressureDeadlockFree == ~BackpressureDeadlock

\* C18 (as claimed): a network worker that holds a Request it has pulled
\* and not yet forwarded, re-enqueued, rejected or abandoned has
\* active = true, and a worker waiting to pull has active = false.
C18_ActiveTracksOwnership ==
    \A w \in NetIds :
        /\ net_pc[w] \in {"mark", "fetch", "put_retry", "put_response"}
              => net_active[w]
        /\ net_pc[w] = "get" => ~net_active[w]

\* the half of C18 about the reset of the flag: a worker waiting to pull, or
\* one that has exited, has active = false
C18_InactiveWhenWaiting ==
    \A w \in NetIds : net_pc[w] \in {"get", "done"} => ~net_active[w]

InDraining ==
    run_pc \in {"wait_paused", "recheck_requests", "recheck_responses",
                "recheck_active", "disallow", "clear_pause"}

\* C20: the pause flag is set, the Orchestrator is in DRAINING, and work is
\* disallowed only when the generator thread has ended; and a generator that
\* has ended (also one that saw work disallowed) puts no further Request on
\* the Task Queue.
C20_GeneratorEndsBeforeQuiescence ==
    /\ []((pause_event \/ InDraining \/ ~work_allowed \/ quiescent_view.set)
            => gen_pc = "done")
    /\ [][gen_pc = "done" =>
            /\ gen_pc' = "done"
            /\ gen_idx' = gen_idx
            /\ \A r \in Requests :
                  (Occurrences(request_queue', r) > Occurrences(request_queue, r))
                      => (r \notin {Tasks[i] : i \in 1..Len(Tasks)}
                          \/ network_try_count[r] > 0)]_vars

\* the quiescence check disallowed work after the generator had yielded all
\* its Requests and ended
C20_Witness ==
    /\ quiescent_view.set
    /\ ~work_allowed
    /\ gen_pc = "done"
    /\ gen_idx > Len(Tasks)

====
